---- MODULE Spec2Model ----
(***************************************************************************)
(* Car Detection API (src/src/api.py, src/src/car_detector.py).            *)
(*                                                                         *)
(* Spec       : the HTTP service.  A fixed number of requests arrive; the  *)
(*              two detection handlers are coroutines with one suspension  *)
(*              point (await file.read()), so each is two atomic steps.    *)
(* FilterSpec : CarDetector.detect_cars / detect_car_simple and the body   *)
(*              of the /detect-car handler applied to bounded model        *)
(*              outputs and label vocabularies.                            *)
(*                                                                         *)
(* Scores and the confidence threshold are in percent (0.9 is 90).         *)
(***************************************************************************)
EXTENDS Integers, Sequences, FiniteSets, TLC

VARIABLES detector, fs, reqs, unit

vars == <<detector, fs, reqs, unit>>

----------------------------------------------------------------------------
(* Bounds *)

MaxReqs == 2
MaxDets == 2
MaxLabel == 1

----------------------------------------------------------------------------
(* CarDetector: configuration and label vocabulary *)

ModelName == "facebook/detr-resnet-50"
ConfidenceThreshold == 90

LabelIds == 0..MaxLabel
LabelNames == {"person", "car", "Car"}

\* id2label of the unit tests' mock model
TestId2Label == (0 :> "person") @@ (1 :> "bicycle") @@ (2 :> "car") @@ (3 :> "motorcycle")

\* vocabularies over a prefix 0..k of the label ids
Vocabs == UNION {[0..k -> LabelNames] : k \in LabelIds}

None == [loaded |-> FALSE]

CarDetectorInit(id2label) ==
    [loaded |-> TRUE,
     model_name |-> ModelName,
     confidence_threshold |-> ConfidenceThreshold,
     id2label |-> id2label]

\* truthiness test `if not detector`
NotDetector(d) == ~d.loaded

----------------------------------------------------------------------------
(* Model outputs and files *)

Scores == {85, 95, 99}
Boxes == {<<100, 100, 200, 200>>, <<300, 300, 400, 400>>}

\* one prediction of the model before thresholding
RawDetection == [label : LabelIds, score : Scores, box : Boxes]

RECURSIVE SeqsUpTo(_, _)
SeqsUpTo(S, n) ==
    IF n = 0 THEN {<<>>}
    ELSE LET shorter == SeqsUpTo(S, n - 1)
         IN  shorter \cup {Append(s, x) : s \in {t \in shorter : Len(t) = n - 1}, x \in S}

\* bytes of a file or an upload, described by what decoding and inference make of them
Empty == [decodable |-> FALSE, mode |-> "", outputs |-> <<>>]
ImageBytes(mode, outputs) == [decodable |-> TRUE, mode |-> mode, outputs |-> outputs]

Paths == 1..MaxReqs
NoPath == 0
NoFile == [exists |-> FALSE, data |-> Empty]
FileWith(data) == [exists |-> TRUE, data |-> data]

\* os.path.exists
PathExists(fsys, path) == path \in DOMAIN fsys /\ fsys[path].exists

\* os.unlink
Unlink(fsys, path) == [fsys EXCEPT ![path] = NoFile]

----------------------------------------------------------------------------
(* CarDetector.detect_cars *)

\* a raised exception; str(e) is kept as the exception's name and the value it quotes
Raise(exc, arg) == [ok |-> FALSE, exc |-> <<exc, arg>>, has_cars |-> FALSE, detections |-> <<>>]
Return(has_cars, detections) ==
    [ok |-> TRUE, exc |-> <<>>, has_cars |-> has_cars, detections |-> detections]

\* image.convert('RGB') when the mode is not RGB
ConvertRGB(image) == IF image.mode # "RGB" THEN [image EXCEPT !.mode = "RGB"] ELSE image

\* processor.post_process_object_detection(..., threshold): keeps score > threshold, in order
PostProcess(outputs, threshold) == SelectSeq(outputs, LAMBDA o : o.score > threshold)

\* variant: the label is compared ignoring case
IsCar_IgnoreCase(label_name) == label_name \in {"car", "Car"}

\* label_name == "car"
IsCar(label_name) == label_name = "car"

CarDetection(label_name, r) ==
    [label |-> label_name, confidence |-> r.score, bbox |-> r.box, bbox_format |-> "xyxy"]

\* variant: has_cars is set for every detection, whatever its label
LoopStep_FlagAny(acc, label_name, r) ==
    [has_cars |-> TRUE,
     car_detections |-> IF IsCar(label_name)
                        THEN Append(acc.car_detections, CarDetection(label_name, r))
                        ELSE acc.car_detections]

\* variant: car detections are kept sorted by descending confidence
LoopStep_ByConfidence(acc, label_name, r) ==
    IF IsCar(label_name)
    THEN LET seq == acc.car_detections
             pos == Cardinality({i \in 1..Len(seq) : seq[i].confidence >= r.score})
         IN  [has_cars |-> TRUE,
              car_detections |-> SubSeq(seq, 1, pos) \o <<CarDetection(label_name, r)>>
                                    \o SubSeq(seq, pos + 1, Len(seq))]
    ELSE acc

\* variant: the loop re-checks the confidence against the configured threshold
LoopStep_Threshold(acc, label_name, r) ==
    IF IsCar(label_name) /\ r.score > ConfidenceThreshold
    THEN [has_cars |-> TRUE, car_detections |-> Append(acc.car_detections, CarDetection(label_name, r))]
    ELSE acc

\* one iteration of the extraction loop, on the pair (has_cars, car_detections)
LoopStep(acc, label_name, r) ==
    IF IsCar(label_name)
    THEN [has_cars |-> TRUE, car_detections |-> Append(acc.car_detections, CarDetection(label_name, r))]
    ELSE acc

\* variant: a detection whose label id is not in the vocabulary is skipped
RECURSIVE ExtractCars_SkipUnknown(_, _, _)
ExtractCars_SkipUnknown(results, id2label, acc) ==
    IF results = <<>> THEN Return(acc.has_cars, acc.car_detections)
    ELSE LET r == Head(results)
         IN  IF r.label \notin DOMAIN id2label
             THEN ExtractCars_SkipUnknown(Tail(results), id2label, acc)
             ELSE ExtractCars_SkipUnknown(Tail(results), id2label,
                                          LoopStep(acc, id2label[r.label], r))

RECURSIVE ExtractCars(_, _, _)
ExtractCars(results, id2label, acc) ==
    IF results = <<>> THEN Return(acc.has_cars, acc.car_detections)
    ELSE LET r == Head(results)
         IN  IF r.label \notin DOMAIN id2label THEN Raise("KeyError", r.label)
             ELSE ExtractCars(Tail(results), id2label, LoopStep(acc, id2label[r.label], r))

DetectCars(d, fsys, image_path, fault) ==
    IF ~PathExists(fsys, image_path) THEN Raise("FileNotFoundError", image_path)
    ELSE LET data == fsys[image_path].data
         IN  \* Image.open: "cannot identify image file '<image_path>'"
             IF ~data.decodable THEN Raise("UnidentifiedImageError", image_path)
             ELSE LET image == ConvertRGB(data)
                  IN  IF fault = "infer" THEN Raise("RuntimeError", 0)
                      ELSE ExtractCars(PostProcess(image.outputs, d.confidence_threshold),
                                       d.id2label,
                                       [has_cars |-> FALSE, car_detections |-> <<>>])

\* variant: a failure of detect_cars is reported as "no car"
DetectCarSimple_Swallow(d, fsys, image_path, fault) ==
    LET res == DetectCars(d, fsys, image_path, fault)
    IN  [ok |-> TRUE, exc |-> <<>>, value |-> res.ok /\ res.has_cars]

\* CarDetector.detect_car_simple: has_cars, _ = self.detect_cars(image_path)
DetectCarSimple(d, fsys, image_path, fault) ==
    LET res == DetectCars(d, fsys, image_path, fault)
    IN  [ok |-> res.ok, exc |-> res.exc, value |-> res.has_cars]

\* list(self.model.config.id2label.values())
RECURSIVE LabelList(_, _)
LabelList(id2label, i) ==
    IF i \notin DOMAIN id2label THEN <<>> ELSE <<id2label[i]>> \o LabelList(id2label, i + 1)

GetModelInfoOf(d) ==
    [model_name |-> d.model_name,
     confidence_threshold |-> d.confidence_threshold,
     available_labels |-> LabelList(d.id2label, 0)]

----------------------------------------------------------------------------
(* HTTP layer: uploads and responses *)

\* a declared content type, as a sequence of tokens; NoContentType is content_type None
ImageJpeg == <<"image", "/", "jpeg">>
TextPlain == <<"text", "/", "plain">>
BareImage == <<"image">>
NoContentType == <<"None">>
ContentTypes == {ImageJpeg, TextPlain, BareImage, NoContentType}

\* str.startswith
StartsWith(s, prefix) == Len(s) >= Len(prefix) /\ SubSeq(s, 1, Len(prefix)) = prefix

ImagePrefix == <<"image", "/">>

Box1 == <<100, 100, 200, 200>>
Box2 == <<300, 300, 400, 400>>

\* sample uploads of the service: two cars and a person, a grayscale person, a car
\* followed by a label id outside the vocabulary, and bytes that are no image
StreetImage ==
    ImageBytes("RGB", <<[label |-> 2, score |-> 95, box |-> Box1],
                        [label |-> 2, score |-> 99, box |-> Box2],
                        [label |-> 0, score |-> 95, box |-> Box1]>>)
PersonImage == ImageBytes("L", <<[label |-> 0, score |-> 95, box |-> Box1]>>)
OddImage ==
    ImageBytes("RGB", <<[label |-> 2, score |-> 95, box |-> Box1],
                        [label |-> 7, score |-> 95, box |-> Box2]>>)
Garbage == Empty
Contents == {StreetImage, PersonImage, OddImage, Garbage}

Filenames == {"a.jpg"}

UploadFile == [filename : Filenames, content_type : ContentTypes, content : Contents]
NoUpload == [filename |-> "", content_type |-> NoContentType, content |-> Empty]

NoBody == [filename |-> ""]
NoResp == [status |-> 0, escaped |-> FALSE, detail |-> "", message |-> <<>>, body |-> NoBody]

\* a response produced by the handler's return
JSONResponse(content) ==
    [status |-> 200, escaped |-> FALSE, detail |-> "", message |-> <<>>, body |-> content]

\* raise HTTPException(status_code, detail); message is the str(e) that follows "detail: "
HTTPException(status_code, detail, message) ==
    [status |-> status_code, escaped |-> FALSE, detail |-> detail, message |-> message, body |-> NoBody]

\* an exception that leaves the handler: the server answers 500 "Internal Server Error"
Escaped(exc) ==
    [status |-> 500, escaped |-> TRUE, detail |-> "Internal Server Error", message |-> <<exc>>,
     body |-> NoBody]

\* try/except of detect_car, given the path the upload was saved to
DetectCarTry(d, fsys, tmp_file_path, filename, fault) ==
    LET res == DetectCars(d, fsys, tmp_file_path, fault)
    IN  IF res.ok
        THEN JSONResponse([filename |-> filename,
                           has_cars |-> res.has_cars,
                           car_count |-> Len(res.detections),
                           detections |-> res.detections,
                           model_info |-> [model_name |-> d.model_name,
                                           confidence_threshold |-> d.confidence_threshold]])
        ELSE HTTPException(500, "Error processing image", res.exc)

\* try/except of detect_car_simple
DetectCarSimpleTry(d, fsys, tmp_file_path, filename, fault) ==
    LET res == DetectCarSimple(d, fsys, tmp_file_path, fault)
    IN  IF res.ok
        THEN JSONResponse([filename |-> filename, car_detected |-> res.value])
        ELSE HTTPException(500, "Error processing image", res.exc)

\* finally: if os.path.exists(tmp_file_path): os.unlink(tmp_file_path)
Cleanup(fsys, tmp_file_path) ==
    IF PathExists(fsys, tmp_file_path) THEN Unlink(fsys, tmp_file_path) ELSE fsys

----------------------------------------------------------------------------
(* The service *)

ReqIds == 1..MaxReqs

Endpoints == {"/", "/model-info", "/detect-car", "/detect-car-simple"}

IdleReq ==
    [pc |-> "idle", endpoint |-> "", file |-> NoUpload, tmp |-> NoPath,
     fault |-> "none", ready |-> FALSE, resp |-> NoResp]

\* the request r finishes with response resp
Finish(r, endpoint, file, tmp, fault, resp) ==
    reqs' = [reqs EXCEPT ![r] = [pc |-> "done", endpoint |-> endpoint, file |-> file, tmp |-> tmp,
                                 fault |-> fault, ready |-> ~NotDetector(detector), resp |-> resp]]

NoResult == [ok |-> FALSE, exc |-> <<>>, has_cars |-> FALSE, detections |-> <<>>]
NoSimple == [ok |-> FALSE, exc |-> <<>>, value |-> FALSE]

\* direct calls on the detector are not part of the service
UnitOff == [done |-> {}, path |-> NoPath, fault |-> "none",
            cars |-> NoResult, simple |-> NoSimple, resp |-> NoResp, loop |-> NoResult]

\* module import: detector = CarDetector(), or None when loading raises
LoadDetector(load_ok) == IF load_ok THEN CarDetectorInit(TestId2Label) ELSE None

Init ==
    /\ \E load_ok \in BOOLEAN : detector = LoadDetector(load_ok)
    /\ fs = [p \in Paths |-> NoFile]
    /\ reqs = [r \in ReqIds |-> IdleReq]
    /\ unit = UnitOff

\* variant: the health check depends on the detector
Root_Checked(r) ==
    /\ reqs[r].pc = "idle"
    /\ Finish(r, "/", NoUpload, NoPath, "none",
              IF NotDetector(detector) THEN HTTPException(500, "Model not loaded", <<>>)
              ELSE JSONResponse([message |-> "Car Detection API is running", status |-> "healthy"]))
    /\ UNCHANGED <<detector, fs, unit>>

\* GET /
RootResponse == JSONResponse([message |-> "Car Detection API is running", status |-> "healthy"])

Root(r) ==
    /\ reqs[r].pc = "idle"
    /\ Finish(r, "/", NoUpload, NoPath, "none", RootResponse)
    /\ UNCHANGED <<detector, fs, unit>>

\* variant: without a detector the endpoint answers 200 with no labels
ModelInfoResponse_NoneLabels(d) ==
    IF NotDetector(d)
    THEN JSONResponse([model_name |-> ModelName, confidence_threshold |-> ConfidenceThreshold,
                       available_labels |-> <<>>])
    ELSE JSONResponse(GetModelInfoOf(d))

\* GET /model-info
ModelInfoResponse(d) ==
    IF NotDetector(d) THEN HTTPException(500, "Model not loaded", <<>>)
    ELSE JSONResponse(GetModelInfoOf(d))

GetModelInfo(r) ==
    /\ reqs[r].pc = "idle"
    /\ Finish(r, "/model-info", NoUpload, NoPath, "none", ModelInfoResponse(detector))
    /\ UNCHANGED <<detector, fs, unit>>

\* variant: the content type is validated before the detector is looked at
DetectCarReject_TypeFirst(d, file) ==
    IF file.content_type = NoContentType THEN Escaped("AttributeError")
    ELSE IF ~StartsWith(file.content_type, ImagePrefix)
         THEN HTTPException(400, "File must be an image", <<>>)
    ELSE IF NotDetector(d) THEN HTTPException(500, "Model not loaded", <<>>)
    ELSE NoResp

\* detect_car up to the upload being accepted: the response that rejects it, or NoResp
DetectCarReject(d, file) ==
    IF NotDetector(d) THEN HTTPException(500, "Model not loaded", <<>>)
    ELSE IF file.content_type = NoContentType THEN Escaped("AttributeError")
    ELSE IF ~StartsWith(file.content_type, ImagePrefix)
         THEN HTTPException(400, "File must be an image", <<>>)
    ELSE NoResp

\* variant: the content type is tested against "image" without the slash
DetectCarSimpleReject_BarePrefix(d, file) ==
    IF NotDetector(d) THEN HTTPException(500, "Model not loaded", <<>>)
    ELSE IF file.content_type = NoContentType THEN Escaped("AttributeError")
    ELSE IF ~StartsWith(file.content_type, <<"image">>)
         THEN HTTPException(400, "File must be an image", <<>>)
    ELSE NoResp

\* detect_car_simple up to the upload being accepted
DetectCarSimpleReject(d, file) ==
    IF NotDetector(d) THEN HTTPException(500, "Model not loaded", <<>>)
    ELSE IF file.content_type = NoContentType THEN Escaped("AttributeError")
    ELSE IF ~StartsWith(file.content_type, ImagePrefix)
         THEN HTTPException(400, "File must be an image", <<>>)
    ELSE NoResp

\* variant: every upload is saved under one fixed name, whether or not it exists
CreateTemp_FixedName(r, endpoint, file) ==
    /\ fs' = [fs EXCEPT ![1] = FileWith(Empty)]
    /\ reqs' = [reqs EXCEPT ![r] = [pc |-> "saving", endpoint |-> endpoint, file |-> file,
                                    tmp |-> 1, fault |-> "none",
                                    ready |-> ~NotDetector(detector), resp |-> NoResp]]

\* tempfile.NamedTemporaryFile(delete=False): a new empty file under an unused name
CreateTemp(r, endpoint, file) ==
    \E p \in Paths :
        /\ ~PathExists(fs, p)
        /\ fs' = [fs EXCEPT ![p] = FileWith(Empty)]
        /\ reqs' = [reqs EXCEPT ![r] = [pc |-> "saving", endpoint |-> endpoint, file |-> file,
                                        tmp |-> p, fault |-> "none",
                                        ready |-> ~NotDetector(detector), resp |-> NoResp]]

\* POST /detect-car, up to await file.read()
DetectCarBegin(r) ==
    /\ reqs[r].pc = "idle"
    /\ \E file \in UploadFile :
        LET rej == DetectCarReject(detector, file)
        IN  IF rej # NoResp
            THEN Finish(r, "/detect-car", file, NoPath, "none", rej) /\ UNCHANGED fs
            ELSE \/ Finish(r, "/detect-car", file, NoPath, "create", Escaped("OSError"))
                    /\ UNCHANGED fs
                 \/ CreateTemp(r, "/detect-car", file)
    /\ UNCHANGED <<detector, unit>>

\* POST /detect-car, from await file.read() to the response
DetectCarFinish(r) ==
    /\ reqs[r].pc = "saving"
    /\ reqs[r].endpoint = "/detect-car"
    /\ LET q == reqs[r]
       IN  \E fault \in {"none", "read", "write", "infer"} :
            IF fault \in {"read", "write"}
            THEN /\ Finish(r, q.endpoint, q.file, q.tmp, fault, Escaped("OSError"))
                 /\ UNCHANGED fs
            ELSE LET saved == [fs EXCEPT ![q.tmp] = FileWith(q.file.content)]
                     tmp_file_path == q.tmp
                 IN  /\ Finish(r, q.endpoint, q.file, q.tmp, fault,
                               DetectCarTry(detector, saved, tmp_file_path, q.file.filename, fault))
                     /\ fs' = Cleanup(saved, tmp_file_path)
    /\ UNCHANGED <<detector, unit>>

\* POST /detect-car-simple, up to await file.read()
DetectCarSimpleBegin(r) ==
    /\ reqs[r].pc = "idle"
    /\ \E file \in UploadFile :
        LET rej == DetectCarSimpleReject(detector, file)
        IN  IF rej # NoResp
            THEN Finish(r, "/detect-car-simple", file, NoPath, "none", rej) /\ UNCHANGED fs
            ELSE \/ Finish(r, "/detect-car-simple", file, NoPath, "create", Escaped("OSError"))
                    /\ UNCHANGED fs
                 \/ CreateTemp(r, "/detect-car-simple", file)
    /\ UNCHANGED <<detector, unit>>

\* POST /detect-car-simple, from await file.read() to the response
DetectCarSimpleFinish(r) ==
    /\ reqs[r].pc = "saving"
    /\ reqs[r].endpoint = "/detect-car-simple"
    /\ LET q == reqs[r]
       IN  \E fault \in {"none", "read", "write", "infer"} :
            IF fault \in {"read", "write"}
            THEN /\ Finish(r, q.endpoint, q.file, q.tmp, fault, Escaped("OSError"))
                 /\ UNCHANGED fs
            ELSE LET saved == [fs EXCEPT ![q.tmp] = FileWith(q.file.content)]
                     tmp_file_path == q.tmp
                 IN  /\ Finish(r, q.endpoint, q.file, q.tmp, fault,
                               DetectCarSimpleTry(detector, saved, tmp_file_path, q.file.filename, fault))
                     /\ fs' = Cleanup(saved, tmp_file_path)
    /\ UNCHANGED <<detector, unit>>

Next ==
    \E r \in ReqIds :
        \/ Root(r)
        \/ GetModelInfo(r)
        \/ DetectCarBegin(r)
        \/ DetectCarFinish(r)
        \/ DetectCarSimpleBegin(r)
        \/ DetectCarSimpleFinish(r)

Spec == Init /\ [][Next]_vars

----------------------------------------------------------------------------
(* Direct calls on a detector, over bounded model outputs and vocabularies *)

FilterInit ==
    /\ \E id2label \in Vocabs : detector = CarDetectorInit(id2label)
    /\ \E outputs \in SeqsUpTo(RawDetection, MaxDets) :
        fs = [p \in Paths |-> IF p = 1 THEN FileWith(ImageBytes("RGB", outputs)) ELSE NoFile]
    /\ reqs = [r \in ReqIds |-> IdleReq]
    /\ \E path \in {1, NoPath}, fault \in {"none", "infer"} :
        unit = [UnitOff EXCEPT !.path = path, !.fault = fault]

\* detector.detect_cars(path)
UnitDetectCars ==
    /\ "cars" \notin unit.done
    /\ unit' = [unit EXCEPT !.done = @ \cup {"cars"},
                            !.cars = DetectCars(detector, fs, unit.path, unit.fault)]
    /\ UNCHANGED <<detector, fs, reqs>>

\* detector.detect_car_simple(path)
UnitDetectCarSimple ==
    /\ "simple" \notin unit.done
    /\ unit' = [unit EXCEPT !.done = @ \cup {"simple"},
                            !.simple = DetectCarSimple(detector, fs, unit.path, unit.fault)]
    /\ UNCHANGED <<detector, fs, reqs>>

\* the body of the /detect-car handler on the saved file
UnitDetectCarTry ==
    /\ "try" \notin unit.done
    /\ unit' = [unit EXCEPT !.done = @ \cup {"try"},
                            !.resp = DetectCarTry(detector, fs, unit.path, "a.jpg", unit.fault)]
    /\ UNCHANGED <<detector, fs, reqs>>

\* the extraction loop of detect_cars on results a mocked processor hands over unfiltered
UnitExtractCars ==
    /\ "loop" \notin unit.done
    /\ unit' = [unit EXCEPT !.done = @ \cup {"loop"},
                            !.loop = ExtractCars(fs[1].data.outputs, detector.id2label,
                                                 [has_cars |-> FALSE, car_detections |-> <<>>])]
    /\ UNCHANGED <<detector, fs, reqs>>

FilterNext == UnitDetectCars \/ UnitDetectCarSimple \/ UnitDetectCarTry \/ UnitExtractCars

FilterSpec == FilterInit /\ [][FilterNext]_vars

----------------------------------------------------------------------------
(* Properties *)

DetectEndpoints == {"/detect-car", "/detect-car-simple"}

Done(r) == reqs[r].pc = "done"

ModelNotLoaded == HTTPException(500, "Model not loaded", <<>>)
MustBeImage == HTTPException(400, "File must be an image", <<>>)

\* the upload declares a content type and it does not start with "image/"
DeclaredNonImage(file) ==
    file.content_type # NoContentType /\ ~StartsWith(file.content_type, ImagePrefix)

\* C1 as stated: a declared non-image content type yields 400 "File must be an image"
\* on both detection endpoints, whether or not the detector is ready.
C1_Original ==
    \A r \in ReqIds :
        (Done(r) /\ reqs[r].endpoint \in DetectEndpoints /\ DeclaredNonImage(reqs[r].file))
            => reqs[r].resp = MustBeImage

\* C1 amended: a declared non-image content type yields 400 "File must be an image"
\* when the detector is ready, and 500 "Model not loaded" when it is not.
C1_NonImageRejected ==
    \A r \in ReqIds :
        (Done(r) /\ reqs[r].endpoint \in DetectEndpoints /\ DeclaredNonImage(reqs[r].file))
            => reqs[r].resp = IF reqs[r].ready THEN MustBeImage ELSE ModelNotLoaded

C1_Witness ==
    /\ ~NotDetector(detector)
    /\ \E r \in ReqIds :
        /\ Done(r) /\ reqs[r].endpoint = "/detect-car-simple"
        /\ reqs[r].file.content_type = BareImage
        /\ reqs[r].resp.status = 400
    /\ \E r \in ReqIds :
        /\ Done(r) /\ reqs[r].endpoint = "/detect-car"
        /\ reqs[r].file.content_type = TextPlain
        /\ reqs[r].resp.status = 400

\* C2: while the detector is not ready, every request to a detection endpoint ends with
\* 500 "Model not loaded" without ever waiting on the upload, and no temp file exists,
\* so nothing is read, saved, decoded, inferred or filtered.
C2_NotReadyShortCircuits ==
    NotDetector(detector) =>
        /\ \A r \in ReqIds :
            reqs[r].endpoint \in DetectEndpoints =>
                /\ Done(r)
                /\ reqs[r].resp = ModelNotLoaded
                /\ reqs[r].tmp = NoPath
                /\ reqs[r].fault = "none"
        /\ \A p \in Paths : ~PathExists(fs, p)

C2_Witness ==
    /\ NotDetector(detector)
    /\ \E r \in ReqIds :
        /\ Done(r) /\ reqs[r].endpoint = "/detect-car"
        /\ reqs[r].file.content_type = ImageJpeg /\ reqs[r].file.content = StreetImage
    /\ \E r \in ReqIds :
        /\ Done(r) /\ reqs[r].endpoint = "/detect-car-simple"
        /\ reqs[r].file.content_type = TextPlain

\* C3 as stated: every temp file is deleted by the time its request finishes, so every
\* existing temp file belongs to a request that is still in flight.
C3_TempFilesReleased ==
    \A p \in Paths :
        PathExists(fs, p) => \E r \in ReqIds : reqs[r].pc = "saving" /\ reqs[r].tmp = p

\* C7 as stated: once a request is accepted (detector ready, content type starting with
\* "image/"), it ends either with 200 or with the mapped 500 "Error processing image: ...".
C7_FailuresMapped ==
    \A r \in ReqIds :
        (/\ Done(r) /\ reqs[r].endpoint \in DetectEndpoints
         /\ reqs[r].ready /\ StartsWith(reqs[r].file.content_type, ImagePrefix))
            => \/ reqs[r].resp.status = 200
               \/ /\ reqs[r].resp.status = 500
                  /\ ~reqs[r].resp.escaped
                  /\ reqs[r].resp.detail = "Error processing image"

\* C8: when model loading failed, the detector stays None in every step, and every
\* request to /model-info, /detect-car or /detect-car-simple that completes in a step gets
\* 500 "Model not loaded", whatever it carries.
C8_LoadFailureIsUniform ==
    [][NotDetector(detector) =>
        /\ NotDetector(detector')
        /\ \A r \in ReqIds :
            (reqs'[r].pc # "idle" /\ reqs[r].pc = "idle" /\ reqs'[r].endpoint # "/")
                => (reqs'[r].pc = "done" /\ reqs'[r].resp = ModelNotLoaded)]_vars

\* after a failed load, /model-info and a detection endpoint have both answered
C8_Witness ==
    /\ NotDetector(detector)
    /\ \E r \in ReqIds : Done(r) /\ reqs[r].endpoint = "/model-info" /\ reqs[r].resp.status = 500
    /\ \E r \in ReqIds :
        /\ Done(r) /\ reqs[r].endpoint = "/detect-car-simple"
        /\ reqs[r].file.content_type = NoContentType /\ reqs[r].resp.status = 500

\* C9: GET / can be served in every state in which a request is still to arrive, and
\* every answer it has given is 200 with status "healthy".
C9_RootHealthy ==
    \A r \in ReqIds :
        /\ reqs[r].pc = "idle" => ENABLED Root(r)
        /\ (Done(r) /\ reqs[r].endpoint = "/")
            => /\ reqs[r].resp.status = 200
               /\ reqs[r].resp.body.status = "healthy"

\* GET / answered after a failed load while another request has failed
C9_Witness ==
    /\ NotDetector(detector)
    /\ \E r \in ReqIds : Done(r) /\ reqs[r].endpoint = "/" /\ reqs[r].resp.status = 200
    /\ \E r \in ReqIds : Done(r) /\ reqs[r].endpoint = "/detect-car" /\ reqs[r].resp.status = 500

\* a /detect-car and a /detect-car-simple request that carry the same upload and met the
\* same detector state and the same environment failure
SameRequest(r1, r2) ==
    /\ Done(r1) /\ reqs[r1].endpoint = "/detect-car"
    /\ Done(r2) /\ reqs[r2].endpoint = "/detect-car-simple"
    /\ reqs[r1].file = reqs[r2].file
    /\ reqs[r1].ready = reqs[r2].ready
    /\ reqs[r1].fault = reqs[r2].fault

\* the name of the exception a message reports
ExcName(message) == IF message = <<>> THEN "" ELSE message[1]

\* C10 as stated: the two endpoints agree on the same request: both succeed with
\* car_detected = has_cars, or both fail with the same status and the same detail.
C10_Original ==
    \A r1, r2 \in ReqIds :
        SameRequest(r1, r2)
            => IF reqs[r1].resp.status = 200
               THEN /\ reqs[r2].resp.status = 200
                    /\ reqs[r2].resp.body.car_detected = reqs[r1].resp.body.has_cars
               ELSE /\ reqs[r2].resp.status = reqs[r1].resp.status
                    /\ reqs[r2].resp.detail = reqs[r1].resp.detail
                    /\ reqs[r2].resp.message = reqs[r1].resp.message

\* C10 amended: both succeed with car_detected = has_cars, or both fail with the same
\* status and the same kind of detail (same fixed text, same exception); the message of
\* a decode failure quotes the request's own temp file path, which may differ.
C10_SimpleAgreesWithFull ==
    \A r1, r2 \in ReqIds :
        SameRequest(r1, r2)
            => IF reqs[r1].resp.status = 200
               THEN /\ reqs[r2].resp.status = 200
                    /\ reqs[r2].resp.body.car_detected = reqs[r1].resp.body.has_cars
                    /\ reqs[r2].resp.body.filename = reqs[r1].resp.body.filename
               ELSE /\ reqs[r2].resp.status = reqs[r1].resp.status
                    /\ reqs[r2].resp.escaped = reqs[r1].resp.escaped
                    /\ reqs[r2].resp.detail = reqs[r1].resp.detail
                    /\ ExcName(reqs[r2].resp.message) = ExcName(reqs[r1].resp.message)
                    /\ ExcName(reqs[r1].resp.message) # "UnidentifiedImageError"
                        => reqs[r2].resp.message = reqs[r1].resp.message

\* the same street image sent to both endpoints: both report cars
C10_Witness ==
    \E r1, r2 \in ReqIds :
        /\ Done(r1) /\ reqs[r1].endpoint = "/detect-car"
        /\ Done(r2) /\ reqs[r2].endpoint = "/detect-car-simple"
        /\ reqs[r1].file = reqs[r2].file /\ reqs[r1].file.content = StreetImage
        /\ reqs[r1].resp.status = 200 /\ reqs[r1].resp.body.has_cars
        /\ reqs[r1].resp.body.car_count = 2
        /\ reqs[r2].resp.status = 200 /\ reqs[r2].resp.body.car_detected

\* the requests that hold a temp file and have not finished
InFlight == {r \in ReqIds : reqs[r].pc = "saving"}

\* a file system that holds nothing but the upload of request q under q's temp name
OwnFiles(q) == [p \in Paths |-> IF p = q.tmp THEN FileWith(q.file.content) ELSE NoFile]

\* the response of a request that got as far as detection, computed from its own upload
OwnResponse(q) ==
    IF q.endpoint = "/detect-car"
    THEN DetectCarTry(detector, OwnFiles(q), q.tmp, q.file.filename, q.fault)
    ELSE DetectCarSimpleTry(detector, OwnFiles(q), q.tmp, q.file.filename, q.fault)

\* C13: in every step of every interleaving, the temp files of the in-flight requests are
\* pairwise distinct and exist; a temp file is written or deleted only in a step of the
\* in-flight request that created it; the response of a request that reaches detection is
\* the one its own upload determines; and the detector, with its model_name and
\* confidence_threshold, is never modified.
C13_RequestsIsolated ==
    [][/\ \A r1, r2 \in InFlight' : r1 # r2 => reqs'[r1].tmp # reqs'[r2].tmp
       /\ \A r \in InFlight' : PathExists(fs', reqs'[r].tmp)
       /\ \A p \in Paths :
            (PathExists(fs, p) /\ fs'[p] # fs[p])
                => \E r \in InFlight : reqs[r].tmp = p /\ reqs'[r].pc = "done"
       /\ \A r \in InFlight :
            (reqs'[r].pc = "done" /\ reqs'[r].fault \in {"none", "infer"})
                => reqs'[r].resp = OwnResponse(reqs'[r])
       /\ detector' = detector]_vars

\* two requests were in flight together with different uploads; the first has answered
\* from its own street image and removed its file, the second still holds its own
C13_Witness ==
    \E r1, r2 \in ReqIds :
        /\ Done(r1) /\ reqs[r1].endpoint = "/detect-car"
        /\ reqs[r1].file.content = StreetImage
        /\ reqs[r1].resp.status = 200 /\ reqs[r1].resp.body.car_count = 2
        /\ reqs[r2].pc = "saving" /\ reqs[r2].file.content = PersonImage
        /\ reqs[r2].tmp # reqs[r1].tmp
        /\ ~PathExists(fs, reqs[r1].tmp) /\ PathExists(fs, reqs[r2].tmp)

----------------------------------------------------------------------------
(* Properties of detect_cars, checked under FilterSpec *)

\* what post-processing hands to the extraction loop for the file at path 1
Results == PostProcess(fs[1].data.outputs, detector.confidence_threshold)

\* positions of the results whose label id resolves to exactly "car"
CarPositions ==
    {i \in 1..Len(Results) :
        Results[i].label \in DOMAIN detector.id2label /\ detector.id2label[Results[i].label] = "car"}

\* the k-th smallest car position
KthCar(k) == CHOOSE i \in CarPositions : Cardinality({j \in CarPositions : j < i}) = k - 1

CarsReturned == "cars" \in unit.done /\ unit.cars.ok
Served == "try" \in unit.done /\ unit.resp.status = 200

\* C4: in every result of detect_cars and every 200 response of /detect-car, has_cars is
\* true exactly when the detections are non-empty (and car_count is their number).
C4_HasCarsIffDetections ==
    /\ CarsReturned => (unit.cars.has_cars <=> unit.cars.detections # <<>>)
    /\ Served => /\ unit.resp.body.has_cars <=> unit.resp.body.detections # <<>>
                 /\ unit.resp.body.car_count = Len(unit.resp.body.detections)

\* a result without cars although detections above the threshold reached the loop,
\* and a 200 response built from it
C4_Witness ==
    /\ CarsReturned /\ Served
    /\ Len(Results) = MaxDets
    /\ ~unit.cars.has_cars
    /\ ~unit.resp.body.has_cars /\ unit.resp.body.car_count = 0

\* C5: the output is no longer than the input, every output is labelled exactly "car",
\* and there are as many outputs as inputs whose label id resolves to "car".
C5_OnlyCars ==
    CarsReturned =>
        /\ Len(unit.cars.detections) <= Len(Results)
        /\ \A i \in 1..Len(unit.cars.detections) : unit.cars.detections[i].label = "car"
        /\ Len(unit.cars.detections) = Cardinality(CarPositions)

\* inputs labelled "car" and "Car": only the first is kept
C5_Witness ==
    /\ CarsReturned
    /\ Len(Results) = 2
    /\ {detector.id2label[Results[i].label] : i \in 1..2} = {"car", "Car"}
    /\ Len(unit.cars.detections) = 1

\* C6: the k-th output carries the confidence and bbox of the k-th input whose label
\* resolves to "car", tagged "xyxy"; nothing is re-ordered, merged or dropped.
C6_OrderAndContent ==
    CarsReturned =>
        /\ Len(unit.cars.detections) = Cardinality(CarPositions)
        /\ \A k \in 1..Len(unit.cars.detections) :
            /\ unit.cars.detections[k].confidence = Results[KthCar(k)].score
            /\ unit.cars.detections[k].bbox = Results[KthCar(k)].box
            /\ unit.cars.detections[k].bbox_format = "xyxy"

\* two cars in ascending confidence on the same box: both kept, in input order
C6_Witness ==
    /\ CarsReturned
    /\ Len(unit.cars.detections) = 2
    /\ unit.cars.detections[1].confidence < unit.cars.detections[2].confidence
    /\ unit.cars.detections[1].bbox = unit.cars.detections[2].bbox

\* the detections handed to the extraction loop when post-processing has not filtered them
Unfiltered == fs[1].data.outputs

\* positions of the unfiltered detections whose label id resolves to exactly "car"
UnfilteredCarPositions ==
    {i \in 1..Len(Unfiltered) :
        Unfiltered[i].label \in DOMAIN detector.id2label
            /\ detector.id2label[Unfiltered[i].label] = "car"}

LoopReturned == "loop" \in unit.done /\ unit.loop.ok

\* C11: the extraction loop emits every detection it is handed whose label resolves to
\* "car", whatever its confidence, including one below confidence_threshold.
C11_LabelOnly ==
    LoopReturned =>
        /\ Len(unit.loop.detections) = Cardinality(UnfilteredCarPositions)
        /\ \A i \in UnfilteredCarPositions :
            \E k \in 1..Len(unit.loop.detections) :
                /\ unit.loop.detections[k].confidence = Unfiltered[i].score
                /\ unit.loop.detections[k].bbox = Unfiltered[i].box
        /\ unit.loop.has_cars <=> UnfilteredCarPositions # {}

\* a car below the threshold is emitted by the loop, while detect_cars, whose
\* post-processing applies the threshold, returns it not
C11_Witness ==
    /\ LoopReturned /\ CarsReturned
    /\ Len(unit.loop.detections) = 1
    /\ unit.loop.detections[1].confidence < detector.confidence_threshold
    /\ unit.cars.detections = <<>>

\* positions of the post-processed results whose label id has no entry in the vocabulary
UnknownPositions ==
    {i \in 1..Len(Results) : Results[i].label \notin DOMAIN detector.id2label}

FirstUnknown == CHOOSE i \in UnknownPositions : \A j \in UnknownPositions : i <= j

\* the call reaches the extraction loop: the file exists and inference does not fail
ReachesLoop == unit.path = 1 /\ unit.fault = "none"

\* C12: when a result's label id has no entry in the vocabulary, detect_cars raises the
\* lookup failure for that id and returns no detections, even after earlier cars, and the
\* /detect-car handler answers 500 "Error processing image: ..." with that failure.
C12_UnknownLabelPropagates ==
    (ReachesLoop /\ UnknownPositions # {}) =>
        /\ "cars" \in unit.done =>
            /\ ~unit.cars.ok
            /\ unit.cars.exc = <<"KeyError", Results[FirstUnknown].label>>
            /\ unit.cars.detections = <<>>
            /\ ~unit.cars.has_cars
        /\ "simple" \in unit.done =>
            /\ ~unit.simple.ok
            /\ unit.simple.exc = <<"KeyError", Results[FirstUnknown].label>>
        /\ "try" \in unit.done =>
            /\ unit.resp.status = 500
            /\ ~unit.resp.escaped
            /\ unit.resp.detail = "Error processing image"
            /\ unit.resp.message = <<"KeyError", Results[FirstUnknown].label>>

\* a car followed by a detection with an unknown label id: the call and the handler fail
C12_Witness ==
    /\ ReachesLoop
    /\ "cars" \in unit.done /\ "try" \in unit.done
    /\ Len(Results) = 2
    /\ 1 \in CarPositions
    /\ UnknownPositions = {2}
    /\ ~unit.cars.ok
    /\ unit.resp.status = 500

====
